---- MODULE Spec2Model ----
(***************************************************************************)
(* Model of the Finch integration of tax-filing-backend:                   *)
(* src/src/controllers/finchController.js (initiateFinchConnect,           *)
(* handleFinchCallback, syncFinchData and the background import            *)
(* syncFinchPayrollData), the credential helpers of                        *)
(* src/unnamed/part_009 (utils/encryption.js) and the tables of            *)
(* src/unnamed/part_000 (schema) that they read and write.                 *)
(*                                                                         *)
(* Node runs the handlers on one thread: code between two awaits is        *)
(* atomic, and every await (a store query, a provider call) is a point     *)
(* where other handlers and imports interleave.  A task's pc names the     *)
(* call it is awaiting; an action completes that call with one of its      *)
(* outcomes and runs the code up to the next await.                        *)
(*                                                                         *)
(* Timestamps written with NOW() are abstracted to the id of the job       *)
(* whose statement wrote them (0 is SQL NULL).                             *)
(***************************************************************************)
EXTENDS Integers, Sequences, FiniteSets, TLC

\* ------------------------------------------------------------------------
\* Bounds of the model
\* ------------------------------------------------------------------------

\* Number of POST /finch/sync requests the model serves.
MaxRequests == 2

\* Largest number of individuals in a company's directory.
MaxDir == 2

\* Highest revision the provider's payroll data reaches (it starts at 1).
MaxRevision == 2

\* Number of connect and callback requests the model serves.
MaxConnects == 2

\* Number of register requests and number of login requests the model serves.
MaxRegisters == 2
MaxLogins == 2

\* Number of business dashboard requests the model serves.
MaxDashboards == 2

\* Number of encrypt / decrypt round trips the model makes.
MaxTrips == 2

\* ------------------------------------------------------------------------
\* Credential helpers (utils/encryption.js)
\* ------------------------------------------------------------------------

\* The cipher works on residues modulo CipherMod; a plaintext p in 1..3 is
\* padded to the odd residue 2p+1 (the low bit stands for the PKCS#7 padding
\* that decipher.final() verifies).
CipherMod == 8

\* process.env.ENCRYPTION_KEY of the running process.
ENCRYPTION_KEY == 0

\* A key other than the process's (an envelope written under it cannot be
\* decrypted by this process).
ForeignKey == 1

\* crypto.randomBytes(IV_LENGTH): the initialization vectors encrypt may draw.
IVs == {0, 1}

\* JavaScript null / undefined / '' for a token, and SQL NULL for the column.
NoText == 0
NullEnvelope == <<>>

\* What decrypt yields when decipher.final() throws.
DecryptThrows == -1

\* Two more texts: a string that is not well-formed UTF-16 (an unpaired
\* surrogate), and the string "\uFFFD".
LoneSurrogate == 3
Replacement == 2

\* The 'utf8' input encoding of cipher.update: the bytes of the text, as the
\* text they decode to.  An unpaired surrogate is encoded as U+FFFD.
Utf8(text) == IF text = LoneSurrogate THEN Replacement ELSE text

\* createCipheriv(ALGORITHM, key, iv).update(text, 'utf8', 'hex') + final('hex')
Cipher(text, key, iv) == (2 * Utf8(text) + 1 + key + iv) % CipherMod

\* createDecipheriv(ALGORITHM, key, iv).update(ct).final(): the padded block,
\* before the padding is verified.
Decipher(ct, key, iv) == (ct + 2 * CipherMod - key - iv) % CipherMod

\* encrypt(text) with the initialization vector it drew, under a given key.
EncryptWith(text, key, iv) ==
    IF text = NoText THEN NullEnvelope
    ELSE <<iv, Cipher(text, key, iv)>>

\* An encrypt that stores the text as it is behind the IV.
encryptPlain(text, iv) ==
    IF text = NoText THEN NullEnvelope ELSE <<iv, text>>

\* encrypt(text): iv.toString('hex') + ':' + encrypted.
encrypt(text, iv) == EncryptWith(text, ENCRYPTION_KEY, iv)

\* A decrypt that ignores the IV of the envelope and uses a fixed one.
decryptFixedIV(envelope) ==
    IF envelope = NullEnvelope THEN NoText
    ELSE LET block == Decipher(envelope[2], ENCRYPTION_KEY, 0)
         IN  IF block % 2 = 1 THEN (block - 1) \div 2 ELSE DecryptThrows

\* decrypt(text): split the IV off, decipher, verify the padding.
decrypt(envelope) ==
    IF envelope = NullEnvelope THEN NoText
    ELSE LET block == Decipher(envelope[2], ENCRYPTION_KEY, envelope[1])
         IN  IF block % 2 = 1 THEN (block - 1) \div 2 ELSE DecryptThrows

\* ------------------------------------------------------------------------
\* The provider (Finch), an external collaborator
\* ------------------------------------------------------------------------

\* The access token the provider issued for a company; every other bearer
\* value (null included) is rejected.
IssuedToken == 1

\* Errors a provider call can end with (axios rejects the promise): the
\* credential is rejected, or any other failure (network, 5xx, timeout, rate
\* limit, record not found), which the code does not tell apart.
ProviderErrors == {"AuthError", "TransportError"}

\* error.message of a rejected store query.
StoreError == "StoreError"

\* Outcomes of a provider call made with a bearer token.
ProviderOutcomes(accessToken) ==
    IF accessToken = IssuedToken THEN {"ok"} \cup ProviderErrors
    ELSE {"AuthError"}

\* ------------------------------------------------------------------------
\* State
\* ------------------------------------------------------------------------
VARIABLES
    connections,    \* table connections: sequence of rows, connection_id = index
    sync_jobs,      \* table sync_jobs: sequence of rows, job_id = index
    employees,      \* table employees: set of rows
    audit_logs,     \* table audit_logs: sequence of events
    tasks,          \* the background imports, one per job: locals of syncFinchPayrollData
    directory,      \* provider: number of individuals (ids 1..n) of each connection's company
    requests,       \* the POST /finch/sync requests served: connectionId, response, logged error
    revision,       \* provider: revision of the payroll data it serves
    responses,      \* the connect and callback requests served: handler, owners, status
    taxpayers,      \* table taxpayers: sequence of rows, taxpayer_id = index
    registers,      \* the register requests: locals of register and the response sent
    logins,         \* the login requests served: email, password, response
    dashboards,     \* the business dashboard requests served: caller, business, response
    vault           \* calls of encrypt and decrypt made on their own: text, IV, results

\* The state the Finch handlers and the import touch.
finchVars == <<connections, sync_jobs, employees, audit_logs, tasks, directory, requests,
               revision, responses>>

\* The state register and login touch.
authVars == <<taxpayers, registers, logins>>

vars == <<finchVars, authVars, dashboards, vault>>

ConnIds == 1..Len(connections)
JobIds == 1..Len(sync_jobs)

\* The individual the provider returns for an identifier of a company:
\* responses[0].body, as the revision of the record at the provider.
ProviderRecord(connectionId, individualId) == revision

\* A connections row as handleFinchCallback inserts it.
NewConnection(taxpayerId, businessId, accessTokenEncrypted) ==
    [taxpayer_id |-> taxpayerId,
     business_id |-> businessId,
     provider |-> "finch",
     access_token_encrypted |-> accessTokenEncrypted,
     status |-> "active",
     last_sync_at |-> 0]

\* The audit_logs row handleFinchCallback inserts with the connection.
ConnectedEvent(taxpayerId, connectionId) ==
    [event_type |-> "integration.connected",
     actor_id |-> taxpayerId,
     entity_type |-> "connection",
     entity_id |-> connectionId,
     action |-> "create",
     recordsProcessed |-> 0,
     recordsFailed |-> 0]

\* A job row bound to another connection than the one requested.
NewJobOtherConnection(connectionId, jobId) ==
    [connection_id |-> connectionId + 1,
     job_type |-> "finch_payroll_sync",
     status |-> "processing",
     started_at |-> jobId,
     completed_at |-> 0,
     records_processed |-> 0,
     records_failed |-> 0,
     error_message |-> ""]

\* A sync_jobs row as syncFinchData inserts it; the columns it does not name
\* take the defaults of the schema.
NewJob(connectionId, jobId) ==
    [connection_id |-> connectionId,
     job_type |-> "finch_payroll_sync",
     status |-> "processing",
     started_at |-> jobId,
     completed_at |-> 0,
     records_processed |-> 0,
     records_failed |-> 0,
     error_message |-> ""]

\* The locals of syncFinchPayrollData on entry, awaiting the directory.
NewTask(connectionId, accessToken) ==
    [pc |-> "directory",
     connectionId |-> connectionId,
     accessToken |-> accessToken,
     individuals |-> 0,
     idx |-> 0,
     recordsProcessed |-> 0,
     recordsFailed |-> 0,
     error |-> ""]

\* res.json / res.status(..).json of syncFinchData.
SyncStarted(jobId) == [status |-> 200, success |-> TRUE, jobId |-> jobId]
SyncNotFound == [status |-> 404, success |-> FALSE, jobId |-> 0]
SyncInitiationError == [status |-> 500, success |-> FALSE, jobId |-> 0]

\* One served request: req.params.connectionId, the response sent and the
\* error the handler's catch logged with console.error ("" when none).
Served(connectionId, response, logged) ==
    [connectionId |-> connectionId, response |-> response, logged |-> logged]

\* Stored credentials of the first connection at start: written by this
\* process (encrypt), absent (the seeded row names no token), or written
\* under another ENCRYPTION_KEY.
StoredCredentials ==
    {encrypt(IssuedToken, 0), NullEnvelope, EncryptWith(IssuedToken, ForeignKey, 0)}

\* The taxpayers the seed script inserts: the demo user of the auth tests
\* (the other two demo users differ by role only).
SeededTaxpayers ==
    <<[email |-> "admin@tax.com", role |-> "admin"],
      [email |-> "preparer@tax.com", role |-> "tax_professional"],
      [email |-> "taxpayer@tax.com", role |-> "taxpayer"]>>

\* The store holds two connections made by earlier callbacks, with their
\* audit events; no job has run.  The first company has no individual or
\* MaxDir of them, the second has one.
Init ==
    /\ \E cred \in StoredCredentials :
          connections = <<NewConnection(1, 1, cred),
                          NewConnection(2, 2, encrypt(IssuedToken, 1))>>
    /\ sync_jobs = <<>>
    /\ employees = {}
    /\ audit_logs = <<ConnectedEvent(1, 1), ConnectedEvent(2, 2)>>
    /\ tasks = <<>>
    /\ \E n \in {0, MaxDir} : directory = <<n, 1>>
    /\ requests = <<>>
    /\ revision = 1
    /\ responses = <<>>
    /\ taxpayers = SeededTaxpayers
    /\ registers = <<>>
    /\ logins = <<>>
    /\ dashboards = <<>>
    /\ vault = <<>>

\* ------------------------------------------------------------------------
\* Store statements
\* ------------------------------------------------------------------------

\* The SELECT without its filter on status.
SelectAnyStatus(connectionId) ==
    {c \in ConnIds : /\ c = connectionId
                     /\ connections[c].provider = "finch"}

\* SELECT ... FROM connections WHERE connection_id = $1 AND provider = 'finch'
\* AND status = 'active'
SelectActiveConnection(connectionId) ==
    {c \in ConnIds : /\ c = connectionId
                     /\ connections[c].provider = "finch"
                     /\ connections[c].status = "active"}

\* employeeData.first_name, .last_name, .emails?.[0]?.data, .hire_date,
\* .employment?.type and JSON.stringify(employeeData): the columns of one
\* fetched individual.
Normalize(employeeData) ==
    [first_name |-> employeeData,
     last_name |-> employeeData,
     email |-> employeeData,
     hire_date |-> employeeData,
     employment_status |-> employeeData,
     source_data |-> employeeData]

\* The rows of employees with a natural key.
RowsWithKey(rows, connectionId, individualId) ==
    {r \in rows : /\ r.connection_id = connectionId
                  /\ r.provider_employee_id = individualId}

\* The INSERT arm of the statement: a new row with a fresh employee_id
\* (gen_random_uuid(), a value no other row has: here the natural key and the
\* number of rows that already carry it).
InsertEmployee(rows, connectionId, individualId, employeeData) ==
    LET n == Normalize(employeeData)
    IN  rows \cup {[employee_id |-> <<connectionId, individualId,
                        Cardinality(RowsWithKey(rows, connectionId, individualId))>>,
                    connection_id |-> connectionId,
                    provider_employee_id |-> individualId,
                    first_name |-> n.first_name,
                    last_name |-> n.last_name,
                    email |-> n.email,
                    hire_date |-> n.hire_date,
                    employment_status |-> n.employment_status,
                    source_data |-> n.source_data]}

\* The statement without its ON CONFLICT clause, on a table without the
\* UNIQUE constraint.
UpsertEmployeeNoConflict(rows, connectionId, individualId, employeeData) ==
    InsertEmployee(rows, connectionId, individualId, employeeData)

\* An import that mirrors the provider: the rows of the connection are
\* replaced by the record just fetched.
UpsertEmployeeMirror(rows, connectionId, individualId, employeeData) ==
    InsertEmployee({r \in rows : r.connection_id # connectionId},
                   connectionId, individualId, employeeData)

\* INSERT INTO employees ... ON CONFLICT (connection_id, provider_employee_id)
\* DO UPDATE SET first_name, last_name, email, employment_status.
UpsertEmployee(rows, connectionId, individualId, employeeData) ==
    LET n == Normalize(employeeData)
        hit == RowsWithKey(rows, connectionId, individualId)
    IN  IF hit = {}
        THEN InsertEmployee(rows, connectionId, individualId, employeeData)
        ELSE (rows \ hit) \cup
             {[r EXCEPT !.first_name = n.first_name,
                        !.last_name = n.last_name,
                        !.email = n.email,
                        !.employment_status = n.employment_status] : r \in hit}

\* The update after the loop without the assignment of completed_at.
CompletedRowNoTimestamp(row, recordsProcessed, recordsFailed, jobId) ==
    [row EXCEPT !.status = "completed",
                !.records_processed = recordsProcessed,
                !.records_failed = recordsFailed]

\* UPDATE sync_jobs SET status = 'completed', completed_at = NOW(),
\* records_processed = $1, records_failed = $2 WHERE job_id = $3
CompletedRow(row, recordsProcessed, recordsFailed, jobId) ==
    [row EXCEPT !.status = "completed",
                !.completed_at = jobId,
                !.records_processed = recordsProcessed,
                !.records_failed = recordsFailed]

\* A catch's update that also clears the two counters.
FailedRowResetsCounters(row, message, jobId) ==
    [row EXCEPT !.status = "failed",
                !.completed_at = jobId,
                !.error_message = message,
                !.records_processed = 0,
                !.records_failed = 0]

\* The catch's update without the assignment of status.
FailedRowKeepsStatus(row, message, jobId) ==
    [row EXCEPT !.completed_at = jobId, !.error_message = message]

\* UPDATE sync_jobs SET status = 'failed', completed_at = NOW(),
\* error_message = $1 WHERE job_id = $2
FailedRow(row, message, jobId) ==
    [row EXCEPT !.status = "failed",
                !.completed_at = jobId,
                !.error_message = message]

\* An UPDATE connections SET last_sync_at = NOW() with no WHERE clause.
AllConnections(connectionId) == ConnIds

\* The rows UPDATE connections ... WHERE connection_id = $1 writes.
LastSyncTargets(connectionId) == {c \in ConnIds : c = connectionId}

\* An update that also puts the connection back to active.
LastSyncRowReactivates(row, jobId) ==
    [row EXCEPT !.last_sync_at = jobId, !.status = "active"]

\* UPDATE connections SET last_sync_at = NOW(), updated_at = NOW(): the row
\* after the update.
LastSyncRow(row, jobId) == [row EXCEPT !.last_sync_at = jobId]

\* ------------------------------------------------------------------------
\* syncFinchPayrollData: the code between two awaits
\* ------------------------------------------------------------------------

\* End of one iteration of the for-of loop: the next individual, or the
\* statement after the loop.
Advance(t) ==
    [t EXCEPT !.idx = @ + 1,
              !.pc = IF t.idx + 1 > t.individuals THEN "complete" ELSE "fetch"]

\* The outer catch: the error is held and the failed update is issued.
Caught(t, error) == [t EXCEPT !.pc = "fail", !.error = error]

\* recordsProcessed++ at the end of the inner try.
RecordSynced(t) == Advance([t EXCEPT !.recordsProcessed = @ + 1])

\* An inner catch that rethrows instead of counting.
RecordFailedAborts(t) == Caught(t, "RecordError")

\* The inner catch: log, recordsFailed++, next individual.
RecordFailed(t) == Advance([t EXCEPT !.recordsFailed = @ + 1])

\* A response that names no job.
SyncStartedNoId(jobId) == [status |-> 200, success |-> TRUE, jobId |-> 0]

\* res.json({ success: true, message: 'Payroll sync started', jobId })
SyncResponse(jobId) == SyncStarted(jobId)

\* ------------------------------------------------------------------------
\* Actions
\* ------------------------------------------------------------------------

\* What the try block of syncFinchData can throw before the response: a
\* rejected query (the SELECT or the INSERT), or decrypt on the stored
\* credential of the selected connection.
InitiationErrors(connectionId) ==
    {StoreError} \cup
    {"DecryptError" : c \in {c \in SelectActiveConnection(connectionId) :
        decrypt(connections[c].access_token_encrypted) = DecryptThrows}}

\* POST /finch/sync/:connectionId answered 500 by the handler's catch.
syncFinchDataError(connectionId) ==
    /\ Len(requests) < MaxRequests
    /\ \E error \in InitiationErrors(connectionId) :
          requests' = Append(requests, Served(connectionId, SyncInitiationError, error))
    /\ UNCHANGED <<connections, sync_jobs, employees, audit_logs, tasks, directory, revision, responses, authVars, dashboards, vault>>

\* POST /finch/sync/:connectionId answered 404: no active finch connection
\* has the id.
syncFinchDataNotFound(connectionId) ==
    /\ Len(requests) < MaxRequests
    /\ SelectActiveConnection(connectionId) = {}
    /\ requests' = Append(requests, Served(connectionId, SyncNotFound, ""))
    /\ UNCHANGED <<connections, sync_jobs, employees, audit_logs, tasks, directory, revision, responses, authVars, dashboards, vault>>

\* POST /finch/sync/:connectionId accepted: the job row is inserted in
\* 'processing', the import is started without being awaited (it runs up to
\* its first await, the directory request) and the response is sent.
syncFinchDataStarted(connectionId) ==
    /\ Len(requests) < MaxRequests
    /\ SelectActiveConnection(connectionId) # {}
    /\ LET accessToken == decrypt(connections[connectionId].access_token_encrypted)
           jobId == Len(sync_jobs) + 1
       IN  /\ accessToken # DecryptThrows
           /\ sync_jobs' = Append(sync_jobs, NewJob(connectionId, jobId))
           /\ tasks' = Append(tasks, NewTask(connectionId, accessToken))
           /\ requests' = Append(requests, Served(connectionId, SyncResponse(jobId), ""))
    /\ UNCHANGED <<connections, employees, audit_logs, directory, revision, responses, authVars, dashboards, vault>>

\* The whole handler.
syncFinchData(connectionId) ==
    \/ syncFinchDataStarted(connectionId)
    \/ syncFinchDataNotFound(connectionId)
    \/ syncFinchDataError(connectionId)

\* The directory request of job jobId returns or fails.
FetchDirectory(jobId) ==
    LET t == tasks[jobId]
    IN  /\ t.pc = "directory"
        /\ \E outcome \in ProviderOutcomes(t.accessToken) :
              tasks' = [tasks EXCEPT ![jobId] =
                  IF outcome = "ok"
                  THEN Advance([t EXCEPT !.individuals = directory[t.connectionId]])
                  ELSE Caught(t, outcome)]
        /\ UNCHANGED <<connections, sync_jobs, employees, audit_logs, directory, requests, revision, responses, authVars, dashboards, vault>>

\* One iteration of the loop: the individual request of the current
\* identifier returns or fails (or its response has no body), and the upsert
\* of the fetched record commits or is rejected.  The request reads nothing
\* another task writes, so the two awaits are taken in one step.
SyncIndividual(jobId) ==
    LET t == tasks[jobId]
    IN  /\ t.pc = "fetch"
        /\ \E outcome \in ProviderOutcomes(t.accessToken) \cup {"NoBody", "StoreRejects"} :
              IF outcome = "ok"
              THEN /\ employees' = UpsertEmployee(employees, t.connectionId, t.idx,
                                        ProviderRecord(t.connectionId, t.idx))
                   /\ tasks' = [tasks EXCEPT ![jobId] = RecordSynced(t)]
              ELSE /\ tasks' = [tasks EXCEPT ![jobId] = RecordFailed(t)]
                   /\ UNCHANGED employees
        /\ UNCHANGED <<connections, sync_jobs, audit_logs, directory, requests, revision, responses, authVars, dashboards, vault>>

\* The update of the job row after the loop commits or is rejected.
UpdateJobCompleted(jobId) ==
    LET t == tasks[jobId]
    IN  /\ t.pc = "complete"
        /\ \/ /\ sync_jobs' = [sync_jobs EXCEPT ![jobId] =
                     CompletedRow(@, t.recordsProcessed, t.recordsFailed, jobId)]
              /\ tasks' = [tasks EXCEPT ![jobId].pc = "lastSync"]
           \/ /\ tasks' = [tasks EXCEPT ![jobId] = Caught(t, StoreError)]
              /\ UNCHANGED sync_jobs
        /\ UNCHANGED <<connections, employees, audit_logs, directory, requests, revision, responses, authVars, dashboards, vault>>

\* The update of the connection's last_sync_at commits or is rejected.
UpdateLastSync(jobId) ==
    LET t == tasks[jobId]
    IN  /\ t.pc = "lastSync"
        /\ \/ /\ connections' = [c \in ConnIds |->
                     IF c \in LastSyncTargets(t.connectionId)
                     THEN LastSyncRow(connections[c], jobId)
                     ELSE connections[c]]
              /\ tasks' = [tasks EXCEPT ![jobId].pc = "done"]
           \/ /\ tasks' = [tasks EXCEPT ![jobId] = Caught(t, StoreError)]
              /\ UNCHANGED connections
        /\ UNCHANGED <<sync_jobs, employees, audit_logs, directory, requests, revision, responses, authVars, dashboards, vault>>

\* The update of the outer catch commits, or is rejected: then the promise
\* of the import rejects and the .catch of syncFinchData logs it.
MarkJobFailed(jobId) ==
    LET t == tasks[jobId]
    IN  /\ t.pc = "fail"
        /\ \/ /\ sync_jobs' = [sync_jobs EXCEPT ![jobId] = FailedRow(@, t.error, jobId)]
              /\ tasks' = [tasks EXCEPT ![jobId].pc = "done"]
           \/ /\ tasks' = [tasks EXCEPT ![jobId].pc = "rejected"]
              /\ UNCHANGED sync_jobs
        /\ UNCHANGED <<connections, employees, audit_logs, directory, requests, revision, responses, authVars, dashboards, vault>>

Next ==
    \/ \E connectionId \in 0..Len(connections) : syncFinchData(connectionId)
    \/ \E jobId \in JobIds : FetchDirectory(jobId)
    \/ \E jobId \in JobIds : SyncIndividual(jobId)
    \/ \E jobId \in JobIds : UpdateJobCompleted(jobId)
    \/ \E jobId \in JobIds : UpdateLastSync(jobId)
    \/ \E jobId \in JobIds : MarkJobFailed(jobId)

Spec == Init /\ [][Next]_vars

\* Jobs run one after the other: a sync is requested only when no import is
\* in flight.
NoImportRunning == \A j \in JobIds : tasks[j].pc \in {"done", "rejected"}

syncFinchDataIdle(connectionId) == NoImportRunning /\ syncFinchData(connectionId)

NextSeq ==
    \/ \E connectionId \in 0..Len(connections) : syncFinchDataIdle(connectionId)
    \/ \E jobId \in JobIds : FetchDirectory(jobId)
    \/ \E jobId \in JobIds : SyncIndividual(jobId)
    \/ \E jobId \in JobIds : UpdateJobCompleted(jobId)
    \/ \E jobId \in JobIds : UpdateLastSync(jobId)
    \/ \E jobId \in JobIds : MarkJobFailed(jobId)

SpecSeq == Init /\ [][NextSeq]_vars

\* ------------------------------------------------------------------------
\* The provider's data changes between and during imports
\* ------------------------------------------------------------------------

\* The employer edits its payroll data at the provider: every individual
\* request made from now on returns the next revision.
ProviderUpdate ==
    /\ revision < MaxRevision
    /\ revision' = revision + 1
    /\ UNCHANGED <<connections, sync_jobs, employees, audit_logs, tasks, directory,
                   requests, responses, authVars, dashboards, vault>>

NextChange ==
    \/ Next
    \/ ProviderUpdate

SpecChange == Init /\ [][NextChange]_vars

\* The employer removes the last individual of a company at the provider:
\* directory requests made from now on no longer list its identifier.
ProviderRemoves(connectionId) ==
    /\ directory[connectionId] > 0
    /\ directory' = [directory EXCEPT ![connectionId] = @ - 1]
    /\ UNCHANGED <<connections, sync_jobs, employees, audit_logs, tasks, requests,
                   revision, responses, authVars, dashboards, vault>>

\* Jobs one after the other, on a provider whose directories shrink.
NextDrift ==
    \/ NextSeq
    \/ \E connectionId \in ConnIds : ProviderRemoves(connectionId)

\* As Init, with both credentials written by this process, the largest
\* directory for the first company and an empty one for the second.
InitDrift ==
    /\ connections = <<NewConnection(1, 1, encrypt(IssuedToken, 0)),
                       NewConnection(2, 2, encrypt(IssuedToken, 1))>>
    /\ sync_jobs = <<>>
    /\ employees = {}
    /\ audit_logs = <<ConnectedEvent(1, 1), ConnectedEvent(2, 2)>>
    /\ tasks = <<>>
    /\ directory = <<MaxDir, 0>>
    /\ requests = <<>>
    /\ revision = 1
    /\ responses = <<>>
    /\ taxpayers = SeededTaxpayers
    /\ registers = <<>>
    /\ logins = <<>>
    /\ dashboards = <<>>
    /\ vault = <<>>

SpecDrift == InitDrift /\ [][NextDrift]_vars

\* ------------------------------------------------------------------------
\* Connections that are not active
\* ------------------------------------------------------------------------

\* Values of connections.status other than 'active'.
InactiveStatuses == {"revoked", "error"}

\* As Init, with the first connection left revoked or in error; both
\* companies have one individual.
InitGuard ==
    /\ \E status \in InactiveStatuses :
          connections = <<[NewConnection(1, 1, encrypt(IssuedToken, 0))
                              EXCEPT !.status = status],
                          NewConnection(2, 2, encrypt(IssuedToken, 1))>>
    /\ sync_jobs = <<>>
    /\ employees = {}
    /\ audit_logs = <<ConnectedEvent(1, 1), ConnectedEvent(2, 2)>>
    /\ tasks = <<>>
    /\ directory = <<1, 1>>
    /\ requests = <<>>
    /\ revision = 1
    /\ responses = <<>>
    /\ taxpayers = SeededTaxpayers
    /\ registers = <<>>
    /\ logins = <<>>
    /\ dashboards = <<>>
    /\ vault = <<>>

SpecGuard == InitGuard /\ [][Next]_vars

\* ------------------------------------------------------------------------
\* initiateFinchConnect and handleFinchCallback
\* ------------------------------------------------------------------------

\* An owner reference of a request: absent (0) or the id of a taxpayer or
\* business.
OwnerRefs == {0, 1}

\* One served connect or callback request: the handler, the owner references
\* of req.body (connect) or of the decoded state (callback), and the status
\* of the response.
Answered(handler, taxpayerId, businessId, status) ==
    [handler |-> handler, taxpayerId |-> taxpayerId, businessId |-> businessId,
     status |-> status]

\* req.query of a callback: whether code is present, and the state parameter
\* (absent, not decodable by JSON.parse, or decodable to owner references).
CallbackQueries ==
    [code : BOOLEAN, state : {"absent", "undecodable"}, taxpayerId : {0}, businessId : {0}]
    \cup [code : BOOLEAN, state : {"decodable"}, taxpayerId : OwnerRefs, businessId : OwnerRefs]

\* tokenResponse.data.access_token: the token issued, or none.
ExchangeTokens == {IssuedToken, NoText}

\* The statement of the callback's transaction that is rejected, if any.
StatementOutcomes == {"ok", "connectionsRejected", "auditLogsRejected"}

\* Statements that are committed one by one: those before the rejected one
\* stay.
transactionAutocommit(before, after, outcome) ==
    IF outcome = "ok" THEN after
    ELSE IF outcome = "auditLogsRejected" THEN <<after[1], before[2]>>
    ELSE before

\* transaction(callback): the writes of the callback take effect together
\* when every statement succeeded (COMMIT), and none does when a statement
\* was rejected (ROLLBACK, and the error is rethrown).
transaction(before, after, outcome) ==
    IF outcome = "ok" THEN after ELSE before

\* POST /finch/connect: 400 when neither owner reference is given, the
\* authorization URL otherwise.  Nothing is stored.
initiateFinchConnect(taxpayerId, businessId) ==
    /\ Len(responses) < MaxConnects
    /\ responses' = Append(responses,
          Answered("connect", taxpayerId, businessId,
                   IF taxpayerId = 0 /\ businessId = 0 THEN 400 ELSE 200))
    /\ UNCHANGED <<connections, sync_jobs, employees, audit_logs, tasks, directory,
                   requests, revision, authVars, dashboards, vault>>

\* The response of a callback, with the query it answers and whether the
\* token exchange was requested.
AnsweredCallback(q, status, exchanged) ==
    [handler |-> "callback", taxpayerId |-> q.taxpayerId, businessId |-> q.businessId,
     status |-> status, code |-> q.code, state |-> q.state, exchanged |-> exchanged]

\* A check of the code alone.
MissingCodeOnly(q) == ~q.code

\* if (!code || !state)
MissingParams(q) == ~q.code \/ q.state = "absent"

\* What the callback's try block can throw before the transaction:
\* JSON.parse on the state, or one of the provider calls.
CallbackErrors(q) ==
    IF q.state # "decodable" THEN {"StateError"} ELSE ProviderErrors

\* GET /finch/callback answered 400: code or state is missing.
handleFinchCallbackMissing(q) ==
    /\ Len(responses) < MaxConnects
    /\ MissingParams(q)
    /\ responses' = Append(responses, AnsweredCallback(q, 400, FALSE))
    /\ UNCHANGED <<connections, sync_jobs, employees, audit_logs, tasks, directory,
                   requests, revision, authVars, dashboards, vault>>

\* GET /finch/callback answered 500 before the transaction: JSON.parse
\* throws on the state, the token exchange is rejected, or the company
\* request made with the returned token is.
handleFinchCallbackFailed(q) ==
    /\ Len(responses) < MaxConnects
    /\ ~MissingParams(q)
    /\ \E error \in CallbackErrors(q) :
          responses' = Append(responses,
              AnsweredCallback(q, 500, error \in ProviderErrors))
    /\ UNCHANGED <<connections, sync_jobs, employees, audit_logs, tasks, directory,
                   requests, revision, authVars, dashboards, vault>>

\* GET /finch/callback with both provider calls answered: the transaction
\* inserts the connection and its audit event, and the response is 200 when
\* it committed, 500 when it rolled back.  The company of the new connection
\* has one individual.
handleFinchCallbackStored(q) ==
    /\ Len(responses) < MaxConnects
    /\ ~MissingParams(q)
    /\ q.state = "decodable"
    /\ \E access_token \in ExchangeTokens, iv \in IVs, outcome \in StatementOutcomes :
          /\ "ok" \in ProviderOutcomes(access_token)
          /\ LET connectionId == Len(connections) + 1
                 before == <<connections, audit_logs>>
                 after == <<Append(connections,
                                NewConnection(q.taxpayerId, q.businessId,
                                              encrypt(access_token, iv))),
                            Append(audit_logs,
                                ConnectedEvent(q.taxpayerId, connectionId))>>
                 stored == transaction(before, after, outcome)
             IN  /\ connections' = stored[1]
                 /\ audit_logs' = stored[2]
                 /\ directory' = IF outcome = "ok" THEN Append(directory, 1)
                                 ELSE directory
                 /\ responses' = Append(responses,
                       AnsweredCallback(q, IF outcome = "ok" THEN 200 ELSE 500, TRUE))
    /\ UNCHANGED <<sync_jobs, employees, tasks, requests, revision, authVars, dashboards, vault>>

\* The whole handler.
handleFinchCallback(q) ==
    \/ handleFinchCallbackMissing(q)
    \/ handleFinchCallbackFailed(q)
    \/ handleFinchCallbackStored(q)

NextConnect ==
    \/ \E taxpayerId, businessId \in OwnerRefs : initiateFinchConnect(taxpayerId, businessId)
    \/ \E q \in CallbackQueries : handleFinchCallback(q)

SpecConnect == Init /\ [][NextConnect]_vars

\* ------------------------------------------------------------------------
\* Connections that are disconnected while the engine runs
\* ------------------------------------------------------------------------

\* The explicit disconnect of the management surface: an active connection
\* becomes revoked.
Disconnect(connectionId) ==
    /\ connections[connectionId].status = "active"
    /\ connections' = [connections EXCEPT ![connectionId].status = "revoked"]
    /\ UNCHANGED <<sync_jobs, employees, audit_logs, tasks, directory, requests,
                   revision, responses, authVars, dashboards, vault>>

\* The callbacks of one owner that carry a code and a decodable state.
OwnerCallbacks ==
    {q \in CallbackQueries : q.code /\ q.taxpayerId = 1 /\ q.businessId = 1}

\* The owner connects at most one more account.
handleFinchCallbackOnce(q) ==
    /\ Len(connections) = 1
    /\ handleFinchCallbackStored(q)

NextRevoke ==
    \/ NextSeq
    \/ \E connectionId \in ConnIds : Disconnect(connectionId)
    \/ \E q \in OwnerCallbacks : handleFinchCallbackOnce(q)

\* One connection, active, whose company has one individual.
InitRevoke ==
    /\ connections = <<NewConnection(1, 1, encrypt(IssuedToken, 0))>>
    /\ sync_jobs = <<>>
    /\ employees = {}
    /\ audit_logs = <<ConnectedEvent(1, 1)>>
    /\ tasks = <<>>
    /\ directory = <<1>>
    /\ requests = <<>>
    /\ revision = 1
    /\ responses = <<>>
    /\ taxpayers = SeededTaxpayers
    /\ registers = <<>>
    /\ logins = <<>>
    /\ dashboards = <<>>
    /\ vault = <<>>

SpecRevoke == InitRevoke /\ [][NextRevoke]_vars

\* ------------------------------------------------------------------------
\* encrypt and decrypt called on their own
\* ------------------------------------------------------------------------

\* The texts encrypt is called with.
Texts == {NoText, IssuedToken, Replacement, LoneSurrogate}

\* encrypt(text) is called and draws an IV.
EncryptCall(text, iv) ==
    /\ Len(vault) < MaxTrips
    /\ \A k \in 1..Len(vault) : vault[k].pc = "decrypted"
    /\ vault' = Append(vault, [pc |-> "encrypted", text |-> text, iv |-> iv,
                               envelope |-> encrypt(text, iv), plain |-> NoText])
    /\ UNCHANGED <<finchVars, authVars, dashboards>>

\* decrypt is called with the envelope encrypt returned.
DecryptCall ==
    /\ vault # <<>>
    /\ vault[Len(vault)].pc = "encrypted"
    /\ LET trip == vault[Len(vault)]
       IN  vault' = [vault EXCEPT ![Len(vault)] =
                       [trip EXCEPT !.pc = "decrypted", !.plain = decrypt(trip.envelope)]]
    /\ UNCHANGED <<finchVars, authVars, dashboards>>

NextVault ==
    \/ \E text \in Texts, iv \in IVs : EncryptCall(text, iv)
    \/ DecryptCall

SpecVault == Init /\ [][NextVault]_vars

\* ------------------------------------------------------------------------
\* register and login
\* ------------------------------------------------------------------------

\* req.body.email and req.body.password; "" is a missing field.
Emails == {"", "taxpayer@tax.com", "new@tax.com"}
Passwords == {"", "short", "taxpayer123", "secret123"}

\* The body of a register request; complete says that firstName, lastName,
\* ssn and dob are all given.
RegisterBodies == [email : Emails, password : Passwords, complete : BOOLEAN]

\* SELECT ... FROM taxpayers WHERE email = $1
SelectByEmail(rows, email) == SelectSeq(rows, LAMBDA row : row.email = email)

\* The row register inserts; role takes the column default.
NewTaxpayer(email) == [email |-> email, role |-> "taxpayer"]

\* register up to the existence check: 400 on a missing field or a short
\* password, 409 when the SELECT returns a row, 500 when it is rejected;
\* otherwise the handler goes on to the INSERT.
registerCheck(body) ==
    /\ Len(registers) < MaxRegisters
    /\ \E outcome \in {"ok", StoreError} :
          LET missing == body.email = "" \/ body.password = "" \/ ~body.complete
              status == IF missing \/ Len(body.password) < 8 THEN 400
                        ELSE IF outcome = StoreError THEN 500
                        ELSE IF SelectByEmail(taxpayers, body.email) # <<>> THEN 409
                        ELSE 0
          IN  registers' = Append(registers,
                  [email |-> body.email, password |-> body.password,
                   pc |-> IF status = 0 THEN "insert" ELSE "done",
                   status |-> status])
    /\ UNCHANGED <<finchVars, taxpayers, logins, dashboards, vault>>

\* register from the INSERT on: the row is inserted and the response is 201
\* with a token, or the INSERT is rejected and the response is 500.
registerInsert(k) ==
    /\ registers[k].pc = "insert"
    /\ \/ /\ taxpayers' = Append(taxpayers, NewTaxpayer(registers[k].email))
          /\ registers' = [registers EXCEPT ![k].pc = "done", ![k].status = 201]
       \/ /\ registers' = [registers EXCEPT ![k].pc = "done", ![k].status = 500]
          /\ UNCHANGED taxpayers
    /\ UNCHANGED <<finchVars, logins, dashboards, vault>>

\* The passwords login knows.
validPasswords ==
    ("admin@tax.com" :> "admin123") @@ ("preparer@tax.com" :> "preparer123")
        @@ ("taxpayer@tax.com" :> "taxpayer123")

\* if (validPasswords[email] && validPasswords[email] !== password)
PasswordRejected(email, password) ==
    email \in DOMAIN validPasswords /\ validPasswords[email] # password

\* login: 400 on a missing field, 401 when no row has the email or the
\* password is rejected, 200 with a token otherwise; 500 when the SELECT is
\* rejected.
login(email, password) ==
    /\ Len(logins) < MaxLogins
    /\ \E outcome \in {"ok", StoreError} :
          LET status == IF email = "" \/ password = "" THEN 400
                        ELSE IF outcome = StoreError THEN 500
                        ELSE IF SelectByEmail(taxpayers, email) = <<>> THEN 401
                        ELSE IF PasswordRejected(email, password) THEN 401
                        ELSE 200
          IN  logins' = Append(logins,
                  [email |-> email, password |-> password, status |-> status,
                   token |-> status = 200])
    /\ UNCHANGED <<finchVars, taxpayers, registers, dashboards, vault>>

NextAuth ==
    \/ \E body \in RegisterBodies : registerCheck(body)
    \/ \E k \in 1..Len(registers) : registerInsert(k)
    \/ \E email \in Emails, password \in Passwords : login(email, password)

SpecAuth == Init /\ [][NextAuth]_vars

\* ------------------------------------------------------------------------
\* The business dashboard
\* ------------------------------------------------------------------------

\* req.user.userId and req.params.businessId: the owners and the businesses
\* of the stored connections.
Callers == {1, 2}
BusinessIds == {1, 2}

\* The roles the route lets through to the controller.
DashboardRoles == {"business_owner", "admin"}

\* An access check that lets the caller in when its query is rejected.
verifyBusinessAccessFailsOpen(rows, userId, businessId, outcome) ==
    \/ outcome # "ok"
    \/ \E c \in 1..Len(rows) :
          /\ rows[c].taxpayer_id = userId
          /\ rows[c].business_id = businessId
          /\ rows[c].status = "active"

\* verifyBusinessAccess(userId, businessId): SELECT 1 FROM connections WHERE
\* taxpayer_id = $1 AND business_id = $2 AND status = 'active' returned a
\* row; false when the query is rejected.
verifyBusinessAccess(rows, userId, businessId, outcome) ==
    /\ outcome = "ok"
    /\ \E c \in 1..Len(rows) :
          /\ rows[c].taxpayer_id = userId
          /\ rows[c].business_id = businessId
          /\ rows[c].status = "active"

\* GET /business/:businessId: 403 for a caller who is not admin and has no
\* access; otherwise the dashboard query runs and the response is 200, or
\* 500 when the query is rejected.
getBusinessDashboard(userId, role, businessId) ==
    /\ Len(dashboards) < MaxDashboards
    /\ \E check \in {"ok", StoreError}, query \in {"ok", StoreError} :
          LET hasAccess == \/ role = "admin"
                           \/ verifyBusinessAccess(connections, userId, businessId, check)
          IN  dashboards' = Append(dashboards,
                  [userId |-> userId, role |-> role, businessId |-> businessId,
                   check |-> IF role = "admin" THEN "skipped" ELSE check,
                   queried |-> hasAccess,
                   status |-> IF ~hasAccess THEN 403
                              ELSE IF query = "ok" THEN 200 ELSE 500])
    /\ UNCHANGED <<finchVars, authVars, vault>>

NextDashboard ==
    \/ \E userId \in Callers, role \in DashboardRoles, businessId \in BusinessIds :
          getBusinessDashboard(userId, role, businessId)
    \/ \E connectionId \in ConnIds : Disconnect(connectionId)

SpecDashboard == InitGuard /\ [][NextDashboard]_vars

\* ------------------------------------------------------------------------
\* Properties
\* ------------------------------------------------------------------------

TerminalStatus == {"completed", "failed"}

\* The import of a job has returned (its promise is settled).
Ended(jobId) == tasks[jobId].pc \in {"done", "rejected"}

\* The directory request of the job failed: the outer catch holds a provider
\* error and the loop was never entered.
DirectoryFailed(jobId) == tasks[jobId].error \in ProviderErrors

\* The employees rows of a connection.
RowsOf(connectionId) == {r \in employees : r.connection_id = connectionId}

\* No two employees rows share a natural key.
UniqueNaturalKeys ==
    \A r1, r2 \in employees :
        (r1.connection_id = r2.connection_id
         /\ r1.provider_employee_id = r2.provider_employee_id) => r1 = r2

\* C1: a job's status only moves processing -> completed or processing ->
\* failed (pending -> processing before), and a status completed or failed is
\* never changed by a later step.
C1_TerminalStatesFinal ==
    [][\A j \in JobIds :
          \/ sync_jobs'[j].status = sync_jobs[j].status
          \/ /\ sync_jobs[j].status = "pending"
             /\ sync_jobs'[j].status = "processing"
          \/ /\ sync_jobs[j].status = "processing"
             /\ sync_jobs'[j].status \in TerminalStatus]_vars

\* C2: per-record failures do not abort the batch.  Inside the loop the two
\* counters account for every identifier visited so far; the loop is left
\* only after the last identifier; the outer catch is entered only by a
\* failed directory request or by a store error after the loop; and when the
\* update after the loop commits, the job row is completed with
\* recordsProcessed + recordsFailed = N, and recordsProcessed > 0 unless every
\* identifier failed.
C2_PartialFailureCompletes ==
    \A j \in JobIds :
        LET t == tasks[j]
            counted == t.recordsProcessed + t.recordsFailed
        IN  /\ t.pc = "fetch" => (t.idx <= t.individuals /\ counted = t.idx - 1)
            /\ t.pc \in {"complete", "lastSync"} =>
                  (t.idx = t.individuals + 1 /\ counted = t.individuals)
            /\ t.error # "" =>
                  \/ t.error \in ProviderErrors /\ t.idx = 0
                  \/ /\ t.error = StoreError
                     /\ t.idx = t.individuals + 1
                     /\ counted = t.individuals
            /\ t.pc = "lastSync" =>
                  /\ sync_jobs[j].status = "completed"
                  /\ sync_jobs[j].records_processed = t.recordsProcessed
                  /\ sync_jobs[j].records_failed = t.recordsFailed
                  /\ sync_jobs[j].records_processed + sync_jobs[j].records_failed
                        = directory[t.connectionId]
                  /\ sync_jobs[j].records_failed < directory[t.connectionId] =>
                        sync_jobs[j].records_processed > 0

\* C2 witness: a job row just completed in which some identifiers failed and
\* others were stored.
C2_Witness ==
    \E j \in JobIds :
        /\ tasks[j].pc = "lastSync"
        /\ sync_jobs[j].status = "completed"
        /\ sync_jobs[j].records_failed > 0
        /\ sync_jobs[j].records_processed > 0

\* C3: a job whose loop ended with recordsProcessed = 0 and recordsFailed > 0
\* and whose row has left processing is failed, with recordsProcessed = 0.
C3_TotalFailureFails ==
    \A j \in JobIds :
        (/\ tasks[j].idx > tasks[j].individuals
         /\ tasks[j].recordsProcessed = 0
         /\ tasks[j].recordsFailed > 0
         /\ sync_jobs[j].status # "processing") =>
            /\ sync_jobs[j].status = "failed"
            /\ sync_jobs[j].records_processed = 0

\* C4: a failed directory request is fatal to the job only.  The job counts
\* and stores no record, its row is failed with recordsProcessed = 0 once the
\* catch's update commits, the connection stays active (so that a new sync is
\* accepted) and its lastSyncAt is not written by the job; no step of the job
\* changes the employees table.
C4_DirectoryFailureFatalToJobOnly ==
    /\ [](\A j \in JobIds :
            DirectoryFailed(j) =>
                LET c == tasks[j].connectionId
                IN  /\ tasks[j].recordsProcessed = 0
                    /\ sync_jobs[j].records_processed = 0
                    /\ sync_jobs[j].status \in {"processing", "failed"}
                    /\ tasks[j].pc = "done" =>
                          /\ sync_jobs[j].status = "failed"
                          /\ sync_jobs[j].error_message = tasks[j].error
                    /\ connections[c].status = "active"
                    /\ connections[c].last_sync_at # j
                    /\ SelectActiveConnection(c) = {c})
    /\ [][\A j \in JobIds :
            (tasks'[j] # tasks[j] /\ tasks'[j].error \in ProviderErrors) =>
                (employees' = employees /\ connections' = connections)]_vars

\* C4 witness: a job failed by its directory request, and a later job started
\* on the same connection.
C4_Witness ==
    \E j1, j2 \in JobIds :
        /\ j1 < j2
        /\ DirectoryFailed(j1)
        /\ tasks[j1].error = "TransportError"
        /\ tasks[j1].pc = "done"
        /\ sync_jobs[j1].status = "failed"
        /\ sync_jobs[j2].connection_id = sync_jobs[j1].connection_id

CredentialInvalid(connectionId) ==
    decrypt(connections[connectionId].access_token_encrypted) \in {DecryptThrows, NoText}

\* C6: once the imports have returned, every sync requested for a connection
\* whose stored credential is invalid (and not turned away by a rejected
\* query) has left a job of that connection that is failed with errorMessage
\* "credential error", and the connection is in status error.
C6_CredentialFailureRecorded ==
    \A k \in 1..Len(requests) :
        LET c == requests[k].connectionId
        IN  (/\ c \in ConnIds
             /\ CredentialInvalid(c)
             /\ requests[k].logged # StoreError
             /\ NoImportRunning) =>
                /\ \E j \in JobIds :
                      /\ sync_jobs[j].connection_id = c
                      /\ sync_jobs[j].status = "failed"
                      /\ sync_jobs[j].error_message = "credential error"
                /\ connections[c].status = "error"

\* C7: when the import of a job has returned after the provider rejected the
\* credential, the job's connection is in status error (and so is no longer
\* selected by a later sync request).
C7_AuthErrorMarksConnection ==
    \A j \in JobIds :
        (tasks[j].error = "AuthError" /\ Ended(j)) =>
            /\ connections[tasks[j].connectionId].status = "error"
            /\ SelectActiveConnection(tasks[j].connectionId) = {}

\* The audit events of a job's terminal transition.
TerminalEvents(jobId) ==
    {k \in 1..Len(audit_logs) :
        /\ audit_logs[k].event_type =
              (IF sync_jobs[jobId].status = "completed" THEN "sync.completed"
               ELSE "sync.failed")
        /\ audit_logs[k].entity_id = jobId
        /\ audit_logs[k].recordsProcessed = sync_jobs[jobId].records_processed
        /\ audit_logs[k].recordsFailed = sync_jobs[jobId].records_failed}

\* C8: every job whose import has returned with the row completed or failed
\* has exactly one sync.completed, respectively sync.failed, audit event
\* carrying the row's recordsProcessed and recordsFailed.
C8_TerminalTransitionAudited ==
    \A j \in JobIds :
        (Ended(j) /\ sync_jobs[j].status \in TerminalStatus) =>
            Cardinality(TerminalEvents(j)) = 1

\* C9: a connection's lastSyncAt is written only by the last step of a job
\* of that connection whose row is completed: the stamp it holds names such a
\* job, whose import has returned normally, and every step that changes it is
\* the last_sync_at update of such a job (not a sync request, not a job that
\* ends failed, not a job of another connection).
C9_LastSyncOnlyOnSuccess ==
    /\ [](\A c \in ConnIds :
            connections[c].last_sync_at # 0 =>
                LET j == connections[c].last_sync_at
                IN  /\ j \in JobIds
                    /\ sync_jobs[j].connection_id = c
                    /\ sync_jobs[j].status = "completed"
                    /\ tasks[j].pc = "done"
                    /\ tasks[j].error = "")
    /\ [][\A c \in ConnIds :
            connections'[c].last_sync_at # connections[c].last_sync_at =>
                /\ Len(sync_jobs') = Len(sync_jobs)
                /\ \E j \in JobIds :
                      /\ tasks[j].connectionId = c
                      /\ tasks[j].pc = "lastSync"
                      /\ tasks'[j].pc = "done"
                      /\ sync_jobs'[j].status = "completed"]_vars

\* C9 witness: a connection whose lastSyncAt was written by one job while
\* another job of the same connection ended failed.
C9_Witness ==
    \E j1, j2 \in JobIds :
        /\ j1 # j2
        /\ sync_jobs[j1].connection_id = sync_jobs[j2].connection_id
        /\ connections[sync_jobs[j1].connection_id].last_sync_at = j1
        /\ Ended(j2)
        /\ sync_jobs[j2].status = "failed"

NotSyncable(connectionId) ==
    IF connectionId \in ConnIds
    THEN connections[connectionId].status # "active"
    ELSE TRUE

\* C11: a sync request for a connection that does not exist, or whose status
\* is revoked or error, is answered with an error (404, or 500 when the
\* lookup itself failed) and has no effect: the step that serves it creates
\* no job row, starts no import (so no provider call is made) and changes no
\* connections, employees or audit_logs row.
C11_InactiveRejected ==
    [][(/\ Len(requests') = Len(requests) + 1
        /\ NotSyncable(requests'[Len(requests')].connectionId)) =>
            /\ requests'[Len(requests')].response.status \in {404, 500}
            /\ ~requests'[Len(requests')].response.success
            /\ requests'[Len(requests')].response.jobId = 0
            /\ UNCHANGED <<connections, sync_jobs, employees, audit_logs, tasks>>]_vars

\* C11 witness: a request for the revoked or failed connection was answered
\* 404 after a job of the other connection was started, and that job is the
\* only one.
C11_Witness ==
    \E k \in 1..Len(requests) :
        /\ k > 1
        /\ requests[k].connectionId \in ConnIds
        /\ connections[requests[k].connectionId].status \in InactiveStatuses
        /\ requests[k].response = SyncNotFound
        /\ Len(sync_jobs) = 1
        /\ sync_jobs[1].connection_id # requests[k].connectionId

\* C12: no two jobs of one connection are in processing at the same time.
C12_OneJobInFlight ==
    \A j1, j2 \in JobIds :
        (/\ j1 # j2
         /\ sync_jobs[j1].connection_id = sync_jobs[j2].connection_id) =>
            ~(/\ sync_jobs[j1].status = "processing"
              /\ sync_jobs[j2].status = "processing")

\* C13: each natural key identifies at most one employees row, and the
\* fields of a row that the statement writes from the fetched payload all
\* come from one write of the record: they hold the same revision.
C13_RowFromOneWrite ==
    /\ UniqueNaturalKeys
    /\ \A r \in employees :
          /\ r.last_name = r.first_name
          /\ r.email = r.first_name
          /\ r.employment_status = r.first_name
          /\ r.hire_date = r.first_name
          /\ r.source_data = r.first_name

\* C14: every connections row has at least one owner reference set.
C14_ConnectionsOwned ==
    \A c \in ConnIds :
        connections[c].taxpayer_id # 0 \/ connections[c].business_id # 0

\* The integration.connected events that refer to a connection.
ConnectedEventsOf(connectionId) ==
    {k \in 1..Len(audit_logs) :
        /\ audit_logs[k].event_type = "integration.connected"
        /\ audit_logs[k].entity_type = "connection"
        /\ audit_logs[k].entity_id = connectionId}

\* C15: a connection and its audit event are stored together or not at all.
\* Every connection has exactly one integration.connected event and every
\* such event refers to a connection; a callback answered 200 appended one
\* active connection and one integration.connected event referring to it;
\* every other connect or callback request (code or state missing, state not
\* decodable, exchange or company request rejected, an insert rejected) left
\* both tables as they were.
C15_ConnectionWithEvent ==
    /\ [](/\ \A c \in ConnIds : Cardinality(ConnectedEventsOf(c)) = 1
          /\ \A k \in 1..Len(audit_logs) :
                audit_logs[k].event_type = "integration.connected" =>
                    audit_logs[k].entity_id \in ConnIds)
    /\ [][Len(responses') = Len(responses) + 1 =>
            LET r == responses'[Len(responses')]
                c == Len(connections) + 1
                e == Len(audit_logs) + 1
            IN  IF r.handler = "callback" /\ r.status = 200
                THEN /\ connections' = Append(connections, connections'[c])
                     /\ connections'[c].status = "active"
                     /\ audit_logs' = Append(audit_logs, audit_logs'[e])
                     /\ audit_logs'[e].event_type = "integration.connected"
                     /\ audit_logs'[e].entity_id = c
                ELSE UNCHANGED <<connections, audit_logs>>]_vars

\* C15 witness: one callback was rolled back by a rejected insert of the
\* audit event and another one stored its connection.
C15_Witness ==
    /\ Len(responses) = 2
    /\ responses[1].handler = "callback"
    /\ responses[1].status = 500
    /\ responses[2].handler = "callback"
    /\ responses[2].status = 200
    /\ Len(connections) = 3
    /\ Cardinality(ConnectedEventsOf(3)) = 1

\* C16: a job whose import has returned is no longer in processing (no code
\* is left to write the row of such a job).
C16_SettledJobsTerminal ==
    \A j \in JobIds : Ended(j) => sync_jobs[j].status \in TerminalStatus

\* C17: a step that answers a sync request with 200 appends exactly one job
\* row, whose id is one no job has and which is bound to the requested
\* connection, and changes no existing job row; no other request adds a row;
\* and a step that changes an existing job row is a step of that job's own
\* import and changes the row and the import of no other job.
C17_OwnJobRowOnly ==
    [][/\ Len(requests') = Len(requests) + 1 =>
            LET r == requests'[Len(requests')]
                j == Len(sync_jobs) + 1
            IN  IF r.response.status = 200
                THEN /\ sync_jobs' = Append(sync_jobs, sync_jobs'[j])
                     /\ r.response.jobId = j
                     /\ j \notin JobIds
                     /\ sync_jobs'[j].connection_id = r.connectionId
                ELSE sync_jobs' = sync_jobs
       /\ Len(requests') = Len(requests) =>
            /\ Len(sync_jobs') = Len(sync_jobs)
            /\ \A j \in JobIds :
                  sync_jobs'[j] # sync_jobs[j] =>
                      /\ tasks'[j] # tasks[j]
                      /\ \A i \in JobIds \ {j} :
                            /\ sync_jobs'[i] = sync_jobs[i]
                            /\ tasks'[i] = tasks[i]]_vars

\* C17 witness: two jobs of one connection, the first completed, the second
\* failed while the first one's row kept its completed status and counters.
C17_Witness ==
    /\ Len(sync_jobs) = 2
    /\ sync_jobs[1].connection_id = sync_jobs[2].connection_id
    /\ sync_jobs[1].status = "completed"
    /\ sync_jobs[1].records_processed > 0
    /\ sync_jobs[2].status = "failed"
    /\ tasks[1].pc = "done"
    /\ tasks[2].pc = "done"

\* C18: records_processed and records_failed of a job row never decrease, and
\* their sum is at most the number of identifiers in the directory the job
\* fetched.
C18_CountersMonotone ==
    /\ [][\A j \in JobIds :
            /\ sync_jobs'[j].records_processed >= sync_jobs[j].records_processed
            /\ sync_jobs'[j].records_failed >= sync_jobs[j].records_failed]_vars
    /\ [](\A j \in JobIds :
            sync_jobs[j].records_processed + sync_jobs[j].records_failed
                <= tasks[j].individuals)

\* C18 witness: a job row whose counters were written by the update after
\* the loop and which was written again by the catch's update.
C18_Witness ==
    \E j \in JobIds :
        /\ sync_jobs[j].status = "failed"
        /\ sync_jobs[j].records_processed > 0
        /\ sync_jobs[j].records_failed > 0
        /\ sync_jobs[j].records_processed + sync_jobs[j].records_failed
              = tasks[j].individuals

\* C19: in every job row, completed_at is set exactly when the status is
\* completed or failed, and error_message is set only when the status is
\* failed.
C19_TimestampAndMessage ==
    \A j \in JobIds :
        /\ sync_jobs[j].completed_at # 0 <=> sync_jobs[j].status \in TerminalStatus
        /\ sync_jobs[j].error_message # "" => sync_jobs[j].status = "failed"

\* C19 witness: a completed job row, with completed_at and no message, next
\* to a failed one with both, while the import of neither is left.
C19_Witness ==
    \E j1, j2 \in JobIds :
        /\ sync_jobs[j1].status = "completed"
        /\ sync_jobs[j1].completed_at # 0
        /\ sync_jobs[j1].error_message = ""
        /\ sync_jobs[j2].status = "failed"
        /\ sync_jobs[j2].completed_at # 0
        /\ sync_jobs[j2].error_message # ""

\* The columns of an employees row that the statement fills from the
\* payload.
Payload(r) ==
    [first_name |-> r.first_name,
     last_name |-> r.last_name,
     email |-> r.email,
     hire_date |-> r.hire_date,
     employment_status |-> r.employment_status,
     source_data |-> r.source_data]

\* C20: after an upsert that is counted in recordsProcessed, the row with the
\* natural key of the record holds the normalization of the payload just
\* fetched, source_data included, and the step changes the natural key and
\* the employee_id of no existing row.
C20_ResyncOverwrites ==
    [][\A j \in JobIds :
          tasks'[j].recordsProcessed = tasks[j].recordsProcessed + 1 =>
              /\ \A r \in RowsWithKey(employees', tasks[j].connectionId, tasks[j].idx) :
                    Payload(r) = Normalize(ProviderRecord(tasks[j].connectionId, tasks[j].idx))
              /\ \A r \in employees : \E r2 \in employees' :
                    /\ r2.employee_id = r.employee_id
                    /\ r2.connection_id = r.connection_id
                    /\ r2.provider_employee_id = r.provider_employee_id]_vars

\* The natural keys present in a set of employees rows.
KeysOf(rows) == {<<r.connection_id, r.provider_employee_id>> : r \in rows}

\* C21: no step removes an employees row or gives a row another natural key:
\* every natural key present before a step is present after it, on the row
\* with the same employee_id.
C21_KeysOnlyGrow ==
    [][/\ KeysOf(employees) \subseteq KeysOf(employees')
       /\ \A r \in employees : \E r2 \in employees' :
             /\ r2.employee_id = r.employee_id
             /\ r2.connection_id = r.connection_id
             /\ r2.provider_employee_id = r.provider_employee_id]_vars

\* C21 witness: a job completed on a directory that no longer lists an
\* identifier whose row, stored by an earlier job of the connection, is still
\* there.
C21_Witness ==
    \E j \in JobIds, r \in employees :
        /\ sync_jobs[j].status = "completed"
        /\ tasks[j].pc = "done"
        /\ r.connection_id = tasks[j].connectionId
        /\ r.provider_employee_id > tasks[j].individuals
        /\ \E i \in JobIds :
              /\ i < j
              /\ sync_jobs[i].connection_id = sync_jobs[j].connection_id
              /\ sync_jobs[i].records_processed > 0

\* C22: when the only job that ever ran on a connection is completed or
\* failed, the connection has as many employees rows as the job row's
\* records_processed says.
C22_RowsMatchProcessed ==
    \A j \in JobIds :
        (/\ sync_jobs[j].status \in TerminalStatus
         /\ \A i \in JobIds \ {j} :
               sync_jobs[i].connection_id # sync_jobs[j].connection_id) =>
            Cardinality(RowsOf(sync_jobs[j].connection_id))
                = sync_jobs[j].records_processed

\* C28: the counters of a completed or failed job row are those of the job's
\* import: records_processed is the number of upserts it committed and
\* records_failed the number of identifiers it failed on.
C28_TerminalCountersExact ==
    \A j \in JobIds :
        sync_jobs[j].status \in TerminalStatus =>
            /\ sync_jobs[j].records_processed = tasks[j].recordsProcessed
            /\ sync_jobs[j].records_failed = tasks[j].recordsFailed

RoundTrips ==
    {k \in 1..Len(vault) : vault[k].pc = "decrypted" /\ vault[k].text # NoText}

\* C24, as claimed: for every non-empty text, decrypt of what encrypt
\* returned is the text, whatever IV was drawn.
C24_RoundTripAllTexts ==
    \A k \in RoundTrips : vault[k].plain = vault[k].text

\* C24, amended: for every non-empty text, decrypt of what encrypt returned
\* is the text with every unpaired surrogate replaced by U+FFFD, whatever IV
\* was drawn, and so the text itself when the text is well-formed; the
\* envelope carries the IV encrypt drew, and deciphering with that IV gives
\* the padded bytes of the text.
C24_RoundTripUpToEncoding ==
    /\ \A k \in RoundTrips :
          /\ vault[k].plain = Utf8(vault[k].text)
          /\ vault[k].text # LoneSurrogate => vault[k].plain = vault[k].text
    /\ \A k \in 1..Len(vault) :
          vault[k].text # NoText =>
              /\ vault[k].envelope[1] = vault[k].iv
              /\ Decipher(vault[k].envelope[2], ENCRYPTION_KEY, vault[k].envelope[1])
                    = 2 * Utf8(vault[k].text) + 1

\* C24 witness: the same well-formed text made the round trip twice, under
\* two IVs and so through two different envelopes.
C24_Witness ==
    /\ Len(vault) = 2
    /\ vault[1].text = vault[2].text
    /\ vault[1].text # NoText
    /\ vault[1].iv # vault[2].iv
    /\ vault[1].envelope # vault[2].envelope
    /\ vault[2].pc = "decrypted"
    /\ vault[2].plain = vault[2].text

\* The statuses of a connection.
ConnectionStatuses == {"active", "revoked", "error"}

LackingCallbacks(log) ==
    {k \in 1..Len(log) :
        /\ log[k].handler = "callback"
        /\ (~log[k].code \/ log[k].state = "absent")}

\* C27: a callback whose query lacks the code or the state is answered 400
\* without a token exchange, and the step that answers it stores no
\* connection and no audit event.
C27_MissingParamsRejected ==
    /\ [](\A k \in LackingCallbacks(responses) :
            responses[k].status = 400 /\ ~responses[k].exchanged)
    /\ [][Len(responses') \in LackingCallbacks(responses') \ LackingCallbacks(responses) =>
            UNCHANGED <<connections, audit_logs>>]_vars

\* C27 witness: a callback with a code and no state and a callback with a
\* decodable state and no code were both answered 400, and the store holds
\* the connections and events it held before.
C27_Witness ==
    /\ \E k \in 1..Len(responses) :
          /\ responses[k].handler = "callback"
          /\ responses[k].code /\ responses[k].state = "absent"
          /\ responses[k].status = 400
    /\ \E k \in 1..Len(responses) :
          /\ responses[k].handler = "callback"
          /\ ~responses[k].code /\ responses[k].state = "decodable"
          /\ responses[k].status = 400
    /\ Len(connections) = 2
    /\ Len(audit_logs) = 2

\* The passwords of the users registered under an email: the password the
\* seeded user is known by, and the passwords of the register requests
\* answered 201.
PasswordsOf(email) ==
    (IF email \in DOMAIN validPasswords THEN {validPasswords[email]} ELSE {})
        \cup {registers[k].password :
                k \in {i \in 1..Len(registers) :
                        registers[i].email = email /\ registers[i].status = 201}}

\* C26: a login is answered 200 with a token only when the email is
\* registered and the password is that user's.
C26_LoginOnlyWithPassword ==
    \A k \in 1..Len(logins) :
        logins[k].token =>
            /\ logins[k].status = 200
            /\ SelectByEmail(taxpayers, logins[k].email) # <<>>
            /\ logins[k].password \in PasswordsOf(logins[k].email)

\* C29: no two rows of taxpayers share an email.
C29_EmailsUnique ==
    \A i, j \in 1..Len(taxpayers) :
        i # j => taxpayers[i].email # taxpayers[j].email

\* An active connection of the caller to the business is stored.
OwnsActive(userId, businessId) ==
    \E c \in ConnIds :
        /\ connections[c].taxpayer_id = userId
        /\ connections[c].business_id = businessId
        /\ connections[c].status = "active"

\* C30: for every request answered, a caller who is not admin has the
\* dashboard query run only if an active connection of the caller to the
\* business is stored when the request is handled; without one, and whenever
\* the access check is rejected, the response is 403 and the query is not
\* run; for an admin the query always runs; and data (200) is returned only
\* when the query ran.
C30_DashboardFailsClosed ==
    [][Len(dashboards') > Len(dashboards) =>
        LET d == dashboards'[Len(dashboards')]
            owns == OwnsActive(d.userId, d.businessId)
        IN  /\ (d.role # "admin" /\ d.queried) => owns
            /\ (d.role # "admin" /\ (~owns \/ d.check = StoreError)) =>
                  (d.status = 403 /\ ~d.queried)
            /\ (d.role # "admin" /\ owns /\ d.check = "ok") => d.queried
            /\ d.role = "admin" => (d.queried /\ d.status \in {200, 500})
            /\ d.status = 200 => d.queried]_vars

\* C30 witness: the owner of an active connection was refused once because
\* the access check was rejected, and the owner of a connection that is not
\* active was refused although the check went through.
C30_Witness ==
    /\ \E k \in 1..Len(dashboards) :
          /\ dashboards[k].role = "business_owner"
          /\ dashboards[k].userId = 2 /\ dashboards[k].businessId = 2
          /\ connections[2].status = "active"
          /\ dashboards[k].check = StoreError
          /\ dashboards[k].status = 403
    /\ \E k \in 1..Len(dashboards) :
          /\ dashboards[k].role = "business_owner"
          /\ dashboards[k].userId = 1 /\ dashboards[k].businessId = 1
          /\ dashboards[k].check = "ok"
          /\ dashboards[k].status = 403
====
